---- MODULE Spec2Model ----
(***************************************************************************)
(* Model of src/main.rs: the number-theoretic helpers (mod_exp, is_prime,  *)
(* factors, is_generator, generate_candidate) and the orchestrating        *)
(* multiplicative_subgroup(p, n).                                          *)
(*                                                                         *)
(* Integers are the u64 of the source scaled to Width bits, so that the    *)
(* overflow of result * a and a * a in mod_exp is within the reach of the  *)
(* model checker.  Every modulus used by the subgroup construction stays   *)
(* far below 2^(Width/2), exactly as small primes stay far below 2^32.     *)
(***************************************************************************)
EXTENDS Integers, Sequences, FiniteSets, TLC

VARIABLES
    overflow_checks, \* build profile: TRUE = overflow aborts, FALSE = wraps
    pc,              \* position of the running call
    p, n,            \* arguments of multiplicative_subgroup / is_prime's n
    k,               \* is_prime's number of rounds
    round,           \* rounds of is_prime already passed
    a,               \* last witness drawn by is_prime (0: none yet)
    prime,           \* value returned by is_prime
    g,               \* current generator candidate
    sampled,         \* whether generate_candidate has been called
    result,          \* what the call returned
    prev,            \* what the previous call with the same (p, n) returned
    fn, args, out    \* unit call of a pure function: name, arguments, value

vars == <<overflow_checks, pc, p, n, k, round, a, prime, g, sampled, result,
          prev, fn, args, out>>

----------------------------------------------------------------------------
(* Bounds of the model *)

\* width in bits of the unsigned integer type (u64 in the source, scaled)
Width == 12
\* largest p given to multiplicative_subgroup and is_prime
MaxP == 25
\* largest n given to multiplicative_subgroup
MaxN == 6
\* largest number of rounds given to is_prime when called on its own
MaxRounds == 5
\* largest argument of factors when called on its own
MaxK == 30
\* largest modulus of is_generator when called on its own
MaxG == 19
\* largest small base, exponent and modulus given to mod_exp on its own
MaxArg == 6

\* rounds multiplicative_subgroup asks of is_prime
Rounds == 5

U64Max == 2^Width - 1

\* the value of an aborted (panicked) computation; program values are >= 0
Panic == 0 - 1

None == [kind |-> "None", v |-> <<>>]
Err(e) == [kind |-> e, v |-> <<>>]
Ok(v) == [kind |-> "Ok", v |-> v]

----------------------------------------------------------------------------
(* sanity_checks::mod_exp *)

\* x * y in the unsigned type: aborts or wraps when it exceeds the width
Mul(x, y) ==
    IF x * y > U64Max
    THEN IF overflow_checks THEN Panic ELSE (x * y) % (U64Max + 1)
    ELSE x * y

\* (x * y) % m
MulMod(x, y, m) ==
    LET prod == Mul(x, y) IN IF prod = Panic THEN Panic ELSE prod % m

RECURSIVE mod_exp_loop(_, _, _, _)
mod_exp_loop(res, b, s, m) ==
    IF s = 0 THEN res
    ELSE LET res1 == IF s % 2 = 1 THEN MulMod(res, b, m) ELSE res
             b1 == MulMod(b, b, m)
         IN  IF res1 = Panic \/ b1 = Panic THEN Panic
             ELSE mod_exp_loop(res1, b1, s \div 2, m)

mod_exp(b, s, m) ==
    IF m = 0 THEN Panic ELSE mod_exp_loop(1, b % m, s, m)

----------------------------------------------------------------------------
(* sanity_checks::is_prime *)

\* the r of n - 1 = 2^r * s
RECURSIVE TwoPart(_)
TwoPart(m) == IF m % 2 = 0 /\ m > 0 THEN 1 + TwoPart(m \div 2) ELSE 0

\* the s of n - 1 = 2^r * s
RECURSIVE OddPart(_)
OddPart(m) == IF m % 2 = 0 /\ m > 0 THEN OddPart(m \div 2) ELSE m

\* SquareLoop with the squares compared with 1 instead of m - 1
RECURSIVE SquareLoopOne(_, _, _)
SquareLoopOne(x, cnt, m) ==
    IF cnt <= 0 THEN "composite"
    ELSE LET x2 == mod_exp(x, 2, m)
         IN  IF x2 = Panic THEN "panic"
             ELSE IF x2 = 1 THEN "pass"
             ELSE SquareLoopOne(x2, cnt - 1, m)

\* the inner loop: up to cnt squarings of x, looking for m - 1
RECURSIVE SquareLoop(_, _, _)
SquareLoop(x, cnt, m) ==
    IF cnt <= 0 THEN "composite"
    ELSE LET x2 == mod_exp(x, 2, m)
         IN  IF x2 = Panic THEN "panic"
             ELSE IF x2 = m - 1 THEN "pass"
             ELSE SquareLoop(x2, cnt - 1, m)

\* MillerRabinRound without the x = m - 1 half of the first test
MillerRabinRoundNoMinusOne(w, m) ==
    LET x == mod_exp(w, OddPart(m - 1), m)
    IN  IF x = Panic THEN "panic"
        ELSE IF x = 1 THEN "pass"
        ELSE SquareLoop(x, TwoPart(m - 1) - 1, m)

\* one round of the Miller-Rabin loop with witness w
MillerRabinRound(w, m) ==
    LET x == mod_exp(w, OddPart(m - 1), m)
    IN  IF x = Panic THEN "panic"
        ELSE IF x = 1 \/ x = m - 1 THEN "pass"
        ELSE SquareLoop(x, TwoPart(m - 1) - 1, m)

\* the witnesses gen_range(2..n - 2) can draw
WitnessRange(m) == 2 .. (m - 3)

----------------------------------------------------------------------------
(* primitive_root::factors *)

RECURSIVE factors_loop(_, _, _)
factors_loop(i, m, acc) ==
    IF i > m THEN acc
    ELSE factors_loop(i + 1, m, IF m % i = 0 THEN Append(acc, i) ELSE acc)

\* factors with the loop started at 2
factorsFromTwo(m) == factors_loop(2, m, <<>>)

factors(m) == factors_loop(1, m, <<>>)

----------------------------------------------------------------------------
(* field::generate_candidate and field::is_generator *)

\* the candidates gen_range(2..p - 1) can draw
CandidateRange(q) == 2 .. (q - 2)

\* Vec::pop: drops the last element, does nothing on an empty vector
Pop(fs) == IF Len(fs) = 0 THEN fs ELSE SubSeq(fs, 1, Len(fs) - 1)

\* the for loop of is_generator over the remaining factors, from index i
RECURSIVE generator_loop(_, _, _, _)
generator_loop(fs, i, q, c) ==
    IF i > Len(fs) THEN "true"
    ELSE LET x == mod_exp(c, (q - 1) \div fs[i], q)
         IN  IF x = Panic THEN "panic"
             ELSE IF x = 1 THEN "false"
             ELSE generator_loop(fs, i + 1, q, c)

\* "true", "false", or "panic" when Vec::remove(0) finds the vector empty
is_generator(q, c) ==
    LET popped == Pop(factors(q - 1))
    IN  IF Len(popped) = 0 THEN "panic"
        ELSE generator_loop(Tail(popped), 1, q, c)

----------------------------------------------------------------------------
(* multiplicative_subgruop::multiplicative_subgroup *)

\* NotFactor with p in place of p - 1
NotFactorOfP(q, m) == q % m # 0

\* the divisibility check of line 92
NotFactor(q, m) == (q - 1) % m # 0

\* the exponent of the i-th element of the subgroup
Exponent(i, q, m) == i * ((q - 1) \div m)

\* the elements inserted into the HashSet (Panic if some mod_exp aborts)
Elements(q, m, c) == { mod_exp(c, Exponent(i, q, m), q) : i \in 1 .. m }

\* ascending enumeration of a finite set of numbers
RECURSIVE Ascending(_)
Ascending(S) ==
    IF S = {} THEN <<>>
    ELSE LET lo == CHOOSE x \in S : \A y \in S : x <= y
         IN  <<lo>> \o Ascending(S \ {lo})

\* every order in which the HashSet may yield its elements to Vec::from_iter
IterationOrders(S) ==
    LET base == Ascending(S)
        m == Len(base)
    IN  { [i \in 1 .. m |-> base[f[i]]] : f \in Permutations(1 .. m) }

\* iter().position(|&x| x == 1): the 0-based index of 1, or Panic for None
Position(v) ==
    IF \E i \in 1 .. Len(v) : v[i] = 1
    THEN (CHOOSE i \in 1 .. Len(v) : v[i] = 1 /\ \A j \in 1 .. (i - 1) : v[j] # 1) - 1
    ELSE Panic

\* RotateLeft that leaves the vector as it is
RotateLeftNothing(v, mid) == v

\* slice::rotate_left(mid)
RotateLeft(v, mid) ==
    [i \in 1 .. Len(v) |-> v[((i - 1 + mid) % Len(v)) + 1]]

----------------------------------------------------------------------------
(* The call multiplicative_subgroup(p, n), step by step *)

Aborted == Err("Panic")

Init ==
    /\ overflow_checks \in BOOLEAN
    /\ pc = "is_prime"
    /\ p \in 0 .. MaxP
    /\ n \in 0 .. MaxN
    /\ k = Rounds
    /\ round = 0
    /\ a = 0
    /\ prime = FALSE
    /\ g = 0
    /\ sampled = FALSE
    /\ result = None
    /\ prev = None
    /\ fn = "none"
    /\ args = <<>>
    /\ out = 0

\* is_prime, lines 21-35: the special cases, then the decomposition of n - 1
is_prime_entry ==
    /\ pc = "is_prime"
    /\ IF p <= 1 \/ p = 4
       THEN prime' = FALSE /\ pc' = "is_prime_ret"
       ELSE IF p <= 3
       THEN prime' = TRUE /\ pc' = "is_prime_ret"
       ELSE prime' = prime /\ pc' = "mr_loop"
    /\ round' = 0
    /\ UNCHANGED <<overflow_checks, p, n, k, a, g, sampled, result, prev,
                   fn, args, out>>

\* is_prime, lines 36-53: one round with a freshly drawn witness
is_prime_round ==
    /\ pc = "mr_loop"
    /\ round < k
    /\ IF WitnessRange(p) = {}
       THEN /\ result' = Aborted
            /\ pc' = "done"
            /\ UNCHANGED <<a, round, prime>>
       ELSE \E w \in WitnessRange(p) :
            LET verdict == MillerRabinRound(w, p)
            IN  /\ a' = w
                /\ IF verdict = "pass"
                   THEN /\ round' = round + 1
                        /\ UNCHANGED <<pc, prime, result>>
                   ELSE IF verdict = "composite"
                   THEN /\ prime' = FALSE
                        /\ pc' = "is_prime_ret"
                        /\ UNCHANGED <<round, result>>
                   ELSE /\ result' = Aborted
                        /\ pc' = "done"
                        /\ UNCHANGED <<round, prime>>
    /\ UNCHANGED <<overflow_checks, p, n, k, g, sampled, prev, fn, args, out>>

\* is_prime, line 54: every round passed
is_prime_true ==
    /\ pc = "mr_loop"
    /\ round = k
    /\ prime' = TRUE
    /\ pc' = "is_prime_ret"
    /\ UNCHANGED <<overflow_checks, p, n, k, round, a, g, sampled, result,
                   prev, fn, args, out>>

\* lines 88-90; the locals of is_prime are gone once it has returned
check_prime ==
    /\ pc = "is_prime_ret"
    /\ IF ~prime
       THEN result' = Err("NotPrime") /\ pc' = "done"
       ELSE result' = result /\ pc' = "check_factor"
    /\ a' = 0
    /\ UNCHANGED <<overflow_checks, p, n, k, round, prime, g, sampled,
                   prev, fn, args, out>>

\* lines 92-94; the remainder by zero aborts
check_factor ==
    /\ pc = "check_factor"
    /\ IF n = 0
       THEN result' = Aborted /\ pc' = "done"
       ELSE IF NotFactor(p, n)
       THEN result' = Err("NotFactor") /\ pc' = "done"
       ELSE result' = result /\ pc' = "sample"
    /\ UNCHANGED <<overflow_checks, p, n, k, round, a, prime, g, sampled,
                   prev, fn, args, out>>

\* lines 96, 98 and 148-151; gen_range aborts on an empty range
generate_candidate ==
    /\ pc = "sample"
    /\ sampled' = TRUE
    /\ IF CandidateRange(p) = {}
       THEN result' = Aborted /\ pc' = "done" /\ g' = g
       ELSE \E c \in CandidateRange(p) :
                g' = c /\ pc' = "test" /\ result' = result
    /\ UNCHANGED <<overflow_checks, p, n, k, round, a, prime, prev, fn,
                   args, out>>

\* line 97: the loop condition
test_candidate ==
    /\ pc = "test"
    /\ LET verdict == is_generator(p, g)
       IN  IF verdict = "true"
           THEN result' = result /\ pc' = "collect"
           ELSE IF verdict = "false"
           THEN result' = result /\ pc' = "sample"
           ELSE result' = Aborted /\ pc' = "done"
    /\ UNCHANGED <<overflow_checks, p, n, k, round, a, prime, g, sampled,
                   prev, fn, args, out>>

\* lines 100-111: fill the set, take it in some order, rotate 1 to the front;
\* the local g is gone once the call has returned
collect ==
    /\ pc = "collect"
    /\ pc' = "done"
    /\ LET subgroup == Elements(p, n, g)
       IN  IF Panic \in subgroup
           THEN result' = Aborted
           ELSE \E order \in IterationOrders(subgroup) :
                LET index == Position(order)
                IN  IF index = Panic
                    THEN result' = Aborted
                    ELSE result' = Ok(RotateLeft(order, index))
    /\ g' = 0
    /\ UNCHANGED <<overflow_checks, p, n, k, round, a, prime, sampled,
                   prev, fn, args, out>>

\* a second call with the same arguments, once the first has returned
call_again ==
    /\ pc = "done"
    /\ prev = None
    /\ result.kind # "Panic"
    /\ prev' = result
    /\ result' = None
    /\ pc' = "is_prime"
    /\ round' = 0
    /\ a' = 0
    /\ prime' = FALSE
    /\ g' = 0
    /\ sampled' = FALSE
    /\ UNCHANGED <<overflow_checks, p, n, k, fn, args, out>>

Next ==
    \/ is_prime_entry
    \/ is_prime_round
    \/ is_prime_true
    \/ check_prime
    \/ check_factor
    \/ generate_candidate
    \/ test_candidate
    \/ collect
    \/ call_again

Spec == Init /\ [][Next]_vars

----------------------------------------------------------------------------
(* is_prime(n, k) called on its own, as test_is_prime does *)

InitPrime ==
    /\ overflow_checks \in BOOLEAN
    /\ pc = "is_prime"
    /\ p \in 0 .. MaxP
    /\ n = 0
    /\ k \in 0 .. MaxRounds
    /\ round = 0
    /\ a = 0
    /\ prime = FALSE
    /\ g = 0
    /\ sampled = FALSE
    /\ result = None
    /\ prev = None
    /\ fn = "none"
    /\ args = <<>>
    /\ out = 0

NextPrime ==
    \/ is_prime_entry
    \/ is_prime_round
    \/ is_prime_true

SpecPrime == InitPrime /\ [][NextPrime]_vars

----------------------------------------------------------------------------
(* The pure functions called on their own, as the unit tests do *)

\* small values and the values next to the top of the unsigned range
Values == (0 .. MaxArg) \cup {U64Max - 1, U64Max}

CallArgs(f) ==
    IF f = "mod_exp" THEN Values \X (0 .. MaxArg) \X Values
    ELSE IF f = "factors" THEN { <<m>> : m \in 0 .. MaxK }
    ELSE (1 .. MaxG) \X (0 .. MaxG)

InitFn ==
    /\ overflow_checks \in BOOLEAN
    /\ pc = "call"
    /\ fn \in {"mod_exp", "factors", "is_generator"}
    /\ args \in CallArgs(fn)
    /\ out = 0
    /\ p = 0
    /\ n = 0
    /\ k = 0
    /\ round = 0
    /\ a = 0
    /\ prime = FALSE
    /\ g = 0
    /\ sampled = FALSE
    /\ result = None
    /\ prev = None

call_mod_exp ==
    /\ pc = "call"
    /\ fn = "mod_exp"
    /\ out' = mod_exp(args[1], args[2], args[3])
    /\ pc' = "ret"
    /\ UNCHANGED <<overflow_checks, p, n, k, round, a, prime, g, sampled,
                   result, prev, fn, args>>

call_factors ==
    /\ pc = "call"
    /\ fn = "factors"
    /\ out' = factors(args[1])
    /\ pc' = "ret"
    /\ UNCHANGED <<overflow_checks, p, n, k, round, a, prime, g, sampled,
                   result, prev, fn, args>>

call_is_generator ==
    /\ pc = "call"
    /\ fn = "is_generator"
    /\ out' = is_generator(args[1], args[2])
    /\ pc' = "ret"
    /\ UNCHANGED <<overflow_checks, p, n, k, round, a, prime, g, sampled,
                   result, prev, fn, args>>

NextFn ==
    \/ call_mod_exp
    \/ call_factors
    \/ call_is_generator

SpecFn == InitFn /\ [][NextFn]_vars

----------------------------------------------------------------------------
(* Number theory the properties are stated with, defined without the code *)

IsPrimeNumber(q) == q >= 2 /\ \A d \in 2 .. (q - 1) : q % d # 0

IsComposite(q) == q >= 4 /\ \E d \in 2 .. (q - 1) : q % d = 0

\* b^e mod m by e multiplications of exact integers
RECURSIVE PowMod(_, _, _)
PowMod(b, e, m) ==
    IF e = 0 THEN 1 % m ELSE (PowMod(b, e - 1, m) * (b % m)) % m

\* c has multiplicative order q - 1 modulo q: its powers are all of 1 .. q - 1
IsPrimitiveRoot(c, q) == { PowMod(c, i, q) : i \in 1 .. (q - 1) } = 1 .. (q - 1)

\* w does not prove m composite: with m - 1 = 2^r * s, s odd,
\* w^s = 1 or w^(2^j * s) = -1 (mod m) for some j < r
StrongLiar(w, m) ==
    \E r \in 0 .. m : \E s \in 1 .. m :
        /\ s % 2 = 1
        /\ (2^r) * s = m - 1
        /\ \/ PowMod(w, s, m) = 1
           \/ \E j \in 0 .. (r - 1) : PowMod(w, (2^j) * s, m) = m - 1

Distinct(v) == \A i, j \in 1 .. Len(v) : i # j => v[i] # v[j]

Range(v) == { v[i] : i \in 1 .. Len(v) }

----------------------------------------------------------------------------
(* The claims *)

C4_SameInputsSameSequence ==
    /\ (pc = "done" /\ result.kind = "Ok" /\ prev.kind = "Ok")
        => result.v = prev.v
    /\ (pc = "done" /\ result.kind = "Ok" /\ p = 7 /\ n = 3)
        => result.v = <<1, 2, 4>>

\* C5, as claimed: for a prime p and a residue g in [0, p), is_generator(p, g)
\* is true exactly when g has multiplicative order p - 1 modulo p.
C5_GeneratorExact ==
    (pc = "ret" /\ fn = "is_generator" /\ IsPrimeNumber(args[1])
        /\ args[2] < args[1])
    => out = (IF IsPrimitiveRoot(args[2], args[1]) THEN "true" ELSE "false")

C7_ModExpExact ==
    (pc = "ret" /\ fn = "mod_exp" /\ args[3] >= 2)
    => out = PowMod(args[1], args[2], args[3])

\* C8, as claimed: for a modulus >= 1, mod_exp returns a value in
\* [0, modulus), and mod_exp(a, 0, n) = 1 for n > 1.
C8_ModExpInRange ==
    /\ (pc = "ret" /\ fn = "mod_exp" /\ args[3] >= 1)
        => out \in 0 .. (args[3] - 1)
    /\ (pc = "ret" /\ fn = "mod_exp" /\ args[3] > 1 /\ args[2] = 0)
        => out = 1

\* C9: for k >= 1, factors(k) lists exactly the i in [1, k] with k mod i = 0,
\* strictly ascending, first 1 and last k; factors(12) = [1,2,3,4,6,12] and
\* factors(17) = [1,17].
C9_FactorsExact ==
    (pc = "ret" /\ fn = "factors" /\ args[1] >= 1)
    => /\ \A i \in 1 .. (Len(out) - 1) : out[i] < out[i + 1]
       /\ Range(out) = { d \in 1 .. args[1] : args[1] % d = 0 }
       /\ out[1] = 1
       /\ out[Len(out)] = args[1]
       /\ args[1] = 12 => out = <<1, 2, 3, 4, 6, 12>>
       /\ args[1] = 17 => out = <<1, 17>>

\* C9 happens: factors(12) has returned its six divisors
C9_Witness ==
    /\ pc = "ret"
    /\ fn = "factors"
    /\ args[1] = 12
    /\ Len(out) = 6

\* C10, as claimed: for every p >= 0 and n >= 0 no step of the call aborts,
\* so every call that ends, ends with Ok, NotPrime or NotFactor.
C10_NeverAborts ==
    /\ result.kind # "Panic"
    /\ pc = "done" => result.kind \in {"Ok", "NotPrime", "NotFactor"}

====
